---- MODULE Spec2Model ----
(***************************************************************************)
(* quagsire.py: thermal image -> extremum points, temperature and CWSI.    *)
(*                                                                         *)
(* Temperatures are exact rationals in micro-degrees Celsius.  The source  *)
(* computes them in IEEE doubles; every quantity below is the real number  *)
(* the double approximates (relative error below 1e-15), and the doubles   *)
(* agree exactly with it at the end points celsius(0), celsius(65535),     *)
(* cwsi(0) and cwsi(65535).                                                *)
(*   Fx  == [w : Int, r : 0..(_GRAY16_MAX-1)]   stands for w + r/65535     *)
(*          micro-degrees.                                                 *)
(***************************************************************************)
EXTENDS Integers, Sequences, FiniteSets, TLC

\* ------------------------------------------------------------- Defines
_GRAY16_MAX == 65535
_GRAY8_MAX == 255
\* 38.0 in micro-degrees
_TEMP_MAX == 38000000
\* 21.111111 in micro-degrees
_TEMP_AIR == 21111111
\* np.zeros((160, 120)): rows, columns of the substituted frame
ZeroRows == 160
ZeroCols == 120
\* radius of the marker circle
MarkRadius == 20

\* ------------------------------------------------------------- bounds
\* decodable frames have at most MaxCells cells (every shape R x C with
\* R * C <= MaxCells)
MaxCells == 4
\* raw sample values a decodable frame is drawn from
RawVals == {0, 30000, _GRAY16_MAX}
\* raw values the Point probe starts its walk from
ProbeStarts == {0, 30000, 65000}

\* ------------------------------------------------------------- baselines
\* _TEMP_CL = _TEMP_AIR, the wet baseline; _TEMP_CU = _TEMP_MAX, the dry one.
\* They are module constants: the program has no other configuration.
_TEMP_CL == _TEMP_AIR
_TEMP_CU == _TEMP_MAX

\* ------------------------------------------------------------- arithmetic
\* a * b = q * m + r for 0 <= a, b <= m <= 65535, without leaving 32 bits
MulDivMod(a, b, m) ==
    LET p == a * (b \div 2)
        t == 2 * (p % m) + a * (b % 2)
    IN  <<2 * (p \div m) + (t \div m), t % m>>

FxInt(k) == [w |-> k, r |-> 0]
FxSubInt(a, k) == [w |-> a.w - k, r |-> a.r]
FxLt(a, b) == a.w < b.w \/ (a.w = b.w /\ a.r < b.r)
FxLe(a, b) == a = b \/ FxLt(a, b)

\* ------------------------------------------------------------- Point
Point(x, y, val) == [x |-> x, y |-> y, val |-> val]

\* bug variant: the scale is not inverted (val / _GRAY16_MAX)
celsius_direct(pt) ==
    LET d  == _TEMP_MAX - _TEMP_AIR
        md == MulDivMod(pt.val, d % _GRAY16_MAX, _GRAY16_MAX)
    IN  [w |-> _TEMP_AIR + pt.val * (d \div _GRAY16_MAX) + md[1], r |-> md[2]]

\* _TEMP_AIR + ((_GRAY16_MAX - val) / _GRAY16_MAX) * (_TEMP_MAX - _TEMP_AIR)
celsius(pt) ==
    LET n  == _GRAY16_MAX - pt.val
        d  == _TEMP_MAX - _TEMP_AIR
        md == MulDivMod(n, d % _GRAY16_MAX, _GRAY16_MAX)
    IN  [w |-> _TEMP_AIR + n * (d \div _GRAY16_MAX) + md[1], r |-> md[2]]

\* bug variant: the numerator drops the "- _TEMP_AIR" of its first term
cwsi_noair(pt) ==
    [num |-> FxSubInt(celsius(pt), _TEMP_CL - _TEMP_AIR),
     den |-> (_TEMP_CU - _TEMP_AIR) - (_TEMP_CL - _TEMP_AIR)]

\* ((celsius - _TEMP_AIR) - (_TEMP_CL - _TEMP_AIR))
\*   / ((_TEMP_CU - _TEMP_AIR) - (_TEMP_CL - _TEMP_AIR));
\* the quotient is kept as the exact fraction num / den.  The divisor is the
\* constant 38.0 - 21.111111, never zero.
cwsi(pt) ==
    [num |-> FxSubInt(FxSubInt(celsius(pt), _TEMP_AIR), _TEMP_CL - _TEMP_AIR),
     den |-> (_TEMP_CU - _TEMP_AIR) - (_TEMP_CL - _TEMP_AIR)]

\* "{0:.1f}".format(t) for a temperature: tenths of a degree, nearest
Format1f_celsius(t) == (t.w + 50000) \div 100000

\* "{0:.1f}".format(q) for a stress index q = num / den, den # 0: tenths, nearest
Format1f_cwsi(q) ==
    LET s == IF q.den < 0 THEN -1 ELSE 1
        n == 20 * s * q.num.w + s * ((20 * q.num.r) \div _GRAY16_MAX)
        d == s * q.den
    IN  (n + d) \div (2 * d)

\* ------------------------------------------------------------- frames
\* an absent array (Python None) or an array a
None == [isNone |-> TRUE, a |-> <<>>]
Array(a) == [isNone |-> FALSE, a |-> a]

Shapes == {rc \in (1..MaxCells) \X (1..MaxCells) : rc[1] * rc[2] <= MaxCells}
Frames == UNION {[1..rc[1] -> [1..rc[2] -> RawVals]] : rc \in Shapes}
\* what the file at the input path holds: a decodable frame, or nothing decodable
Files == {[ok |-> TRUE, data |-> f] : f \in Frames} \cup {[ok |-> FALSE, data |-> <<>>]}

\* np.zeros((160, 120))
Zeros == [i \in 1..ZeroRows |-> [j \in 1..ZeroCols |-> 0]]

Cells(a) == UNION {{a[i][j] : j \in 1..Len(a[i])} : i \in 1..Len(a)}
SetMax(S) == CHOOSE m \in S : \A x \in S : x <= m
SetMin(S) == CHOOSE m \in S : \A x \in S : m <= x

\* cv2.imread(ipath, cv2.IMREAD_ANYDEPTH): the decoded frame, or None
imread(file) == IF file.ok THEN Array(file.data) ELSE None

\* One cell of np.uint8(cv2.normalize(gray16, .., 0, _GRAY8_MAX, NORM_MINMAX))
\* for a frame whose smallest and largest values are lo and hi.  A constant
\* frame has scale 0 and gives 0.  Otherwise OpenCV computes v * a + b in
\* float32, with a and b rounded from doubles, and rounds the result; the
\* value depends on that arithmetic and is kept as the term it is computed
\* from, not as a number.  Nothing in the program reads it.
Gray8Cell(v, lo, hi) ==
    IF hi = lo THEN 0
    ELSE [normalize |-> v, smin |-> lo, smax |-> hi, dmax |-> _GRAY8_MAX]

\* the display frame of gray16; on None the normalisation yields None and
\* np.uint8(None) raises TypeError
gray16_to_gray8(gray16) ==
    IF gray16.isNone
    THEN [exc |-> "TypeError", val |-> <<>>]
    ELSE LET a  == gray16.a
             lo == SetMin(Cells(a))
             hi == SetMax(Cells(a))
         IN  [exc |-> "none",
              val |-> [i \in 1..Len(a) |-> [j \in 1..Len(a[i]) |->
                         Gray8Cell(a[i][j], lo, hi)]]]

\* bug variant: the handler does not replace the frames, the decoder's None
\* goes to the caller
img_read_keep(file) ==
    LET gray16 == imread(file)
        g8     == gray16_to_gray8(gray16)
    IN  IF g8.exc = "TypeError"
        THEN [printed |-> <<"TypeError">>, gray8 |-> None, gray16 |-> gray16]
        ELSE [printed |-> <<>>, gray8 |-> Array(g8.val), gray16 |-> gray16]

\* try: imread, gray16_to_gray8; except TypeError: print(e), zero frames
img_read(file) ==
    LET gray16 == imread(file)
        g8     == gray16_to_gray8(gray16)
    IN  IF g8.exc = "TypeError"
        THEN [printed |-> <<"TypeError">>, gray8 |-> Array(Zeros), gray16 |-> Array(Zeros)]
        ELSE [printed |-> <<>>, gray8 |-> Array(g8.val), gray16 |-> gray16]

\* ------------------------------------------------------------- scan
\* The loop state of img_to_tmtx is its locals t_matrix, pt_max, pt_min.

\* bug variant: >= and <= against the running extremum
ScanCell_ties(st, x, y, val) ==
    LET pt == Point(x, y, val)
    IN  [t_matrix |-> Append(st.t_matrix, pt),
         pt_max   |-> IF val >= st.pt_max.val THEN pt ELSE st.pt_max,
         pt_min   |-> IF val <= st.pt_min.val THEN pt ELSE st.pt_min]

\* bug variant: the point carries the column index as x and the row index as y
ScanCell_swap(st, x, y, val) ==
    LET pt == Point(y, x, val)
    IN  [t_matrix |-> Append(st.t_matrix, pt),
         pt_max   |-> IF val > st.pt_max.val THEN pt ELSE st.pt_max,
         pt_min   |-> IF val < st.pt_min.val THEN pt ELSE st.pt_min]

\* the body of the inner loop, for the cell at row index x, column index y
ScanCell(st, x, y, val) ==
    LET pt == Point(x, y, val)
    IN  [t_matrix |-> Append(st.t_matrix, pt),
         pt_max   |-> IF val > st.pt_max.val THEN pt ELSE st.pt_max,
         pt_min   |-> IF val < st.pt_min.val THEN pt ELSE st.pt_min]

\* for y, val in enumerate(row): the passes for the elements lo..hi of row,
\* in the loop's order.  The range is halved and the state after the first
\* half is inspected before the second half starts, so that the evaluation
\* is in program order and shallow.
RECURSIVE ScanRow(_, _, _, _, _)
ScanRow(st, x, row, lo, hi) ==
    IF lo > hi THEN st
    ELSE IF lo = hi THEN ScanCell(st, x, lo - 1, row[lo])
    ELSE LET first == ScanRow(st, x, row, lo, (lo + hi) \div 2)
         IN  IF Len(first.t_matrix) >= 0
             THEN ScanRow(first, x, row, (lo + hi) \div 2 + 1, hi)
             ELSE first

\* for x, row in enumerate(therm): the passes for the rows lo..hi, in order
RECURSIVE ScanRows(_, _, _, _)
ScanRows(st, therm, lo, hi) ==
    IF lo > hi THEN st
    ELSE IF lo = hi THEN ScanRow(st, lo - 1, therm[lo], 1, Len(therm[lo]))
    ELSE LET first == ScanRows(st, therm, lo, (lo + hi) \div 2)
         IN  IF Len(first.t_matrix) >= 0
             THEN ScanRows(first, therm, (lo + hi) \div 2 + 1, hi)
             ELSE first

img_to_tmtx(therm) ==
    ScanRows([t_matrix |-> <<>>,
              pt_max   |-> Point(0, 0, 0),
              pt_min   |-> Point(0, 0, _GRAY16_MAX)], therm, 1, Len(therm))

\* ------------------------------------------------------------- annotation
Circle(pt) == [op |-> "circle", at |-> <<pt.x, pt.y>>, arg |-> MarkRadius]
TempText(pt) == [op |-> "putText", at |-> <<pt.x - 80, pt.y - 15>>,
                 arg |-> Format1f_celsius(celsius(pt))]
CwsiText(pt, q) == [op |-> "putText", at |-> <<pt.x - 80, pt.y - 45>>,
                    arg |-> Format1f_cwsi(q)]

\* cv2.circle, cv2.putText(celsius), cv2.putText(cwsi), in this order;
\* failAt names the drawing call (1..3) on which the rendering collaborator
\* raises cv2.error, 0 when none does.  Nothing is caught here.
add_label(pt, failAt) ==
    IF failAt = 1 THEN [exc |-> "cv2.error", calls |-> <<>>]
    ELSE IF failAt = 2 THEN [exc |-> "cv2.error", calls |-> <<Circle(pt)>>]
    ELSE IF failAt = 3
    THEN [exc |-> "cv2.error", calls |-> <<Circle(pt), TempText(pt)>>]
    ELSE [exc |-> "none",
          calls |-> <<Circle(pt), TempText(pt), CwsiText(pt, cwsi(pt))>>]

\* ------------------------------------------------------------- state
VARIABLES
    pc,         \* the step quagsire(args) is about to run; "done", "aborted"
    file,       \* what the file at args.input holds
    img,        \* gray8 frame returned by img_read
    therm,      \* gray16 frame returned by img_read
    t_matrix,   \* img_analyze's locals, as returned by img_to_tmtx
    pt_t_max,
    pt_t_min,
    drawn,      \* drawing calls made on img, in order
    windows,    \* titles of the windows shown
    printed,    \* exceptions caught and printed
    raised,     \* the exception that ended the run, and the step it left
    written,    \* paths of the files written
    probe       \* a Point whose methods are called directly (module imported)

vars == <<pc, file, img, therm, t_matrix, pt_t_max, pt_t_min, drawn,
          windows, printed, raised, written, probe>>

\* parse_args() with no flags given
args == [input |-> "flights/flight.tif", output |-> "reports/report.md"]

NoPoint == Point(0, 0, 0)
NoRaise == [exc |-> "none", step |-> "none"]
NoProbe == [lo |-> 0, val |-> 0, cLo |-> FxInt(0), prev |-> 0, cPrev |-> FxInt(0),
            cVal |-> FxInt(0), wVal |-> [num |-> FxInt(0), den |-> 1]]

Loaded ==
    /\ img = None /\ therm = None
    /\ t_matrix = <<>> /\ pt_t_max = NoPoint /\ pt_t_min = NoPoint
    /\ drawn = <<>> /\ windows = {} /\ printed = <<>>
    /\ raised = NoRaise /\ written = {}

\* python quagsire.py: args parsed, quagsire(args) about to run
Init ==
    /\ pc = "img_read"
    /\ file \in Files
    /\ probe = NoProbe
    /\ Loaded

\* img, therm = img_read(args.input)
ImgRead ==
    /\ pc = "img_read"
    /\ LET r == img_read(file)
       IN  /\ img' = r.gray8
           /\ therm' = r.gray16
           /\ printed' = printed \o r.printed
    /\ pc' = "img_analyze"
    /\ UNCHANGED <<file, t_matrix, pt_t_max, pt_t_min, drawn, windows,
                   raised, written, probe>>

\* img_analyze(img, therm): the scan, then add_label for the maximum and for
\* the minimum; an exception of either add_label leaves quagsire
ImgAnalyze ==
    /\ pc = "img_analyze"
    /\ IF therm.isNone
       THEN /\ raised' = [exc |-> "TypeError", step |-> "img_to_tmtx"]
            /\ pc' = "aborted"
            /\ UNCHANGED <<t_matrix, pt_t_max, pt_t_min, drawn>>
       ELSE /\ LET st == img_to_tmtx(therm.a)
               IN  /\ t_matrix' = st.t_matrix
                   /\ pt_t_max' = st.pt_max
                   /\ pt_t_min' = st.pt_min
            /\ \E f1 \in 0..3 : \E f2 \in 0..3 :
               LET l1 == add_label(pt_t_max', f1)
                   l2 == add_label(pt_t_min', f2)
               IN  IF l1.exc # "none"
                   THEN /\ f2 = 0
                        /\ drawn' = drawn \o l1.calls
                        /\ raised' = [exc |-> l1.exc, step |-> "add_label"]
                        /\ pc' = "aborted"
                   ELSE /\ drawn' = drawn \o l1.calls \o l2.calls
                        /\ IF l2.exc # "none"
                           THEN /\ raised' = [exc |-> l2.exc, step |-> "add_label"]
                                /\ pc' = "aborted"
                           ELSE /\ raised' = raised
                                /\ pc' = "display_colored"
    /\ UNCHANGED <<file, img, therm, windows, printed, written, probe>>

\* display(frame, c_map, title): applyColorMap when c_map is set, imshow,
\* waitKey inside try; cv2.error is printed.  fail names the call that raises.
display(c_map, title, fail) ==
    /\ fail = "applyColorMap" => c_map # ""
    /\ windows' = IF fail \in {"none", "waitKey"} THEN windows \cup {title} ELSE windows
    /\ printed' = IF fail = "none" THEN printed ELSE Append(printed, "cv2.error")

DisplayFails == {"none", "applyColorMap", "imshow", "waitKey"}

\* display(img, c_map="Jet", title="colored")
DisplayColored ==
    /\ pc = "display_colored"
    /\ \E fail \in DisplayFails : display("Jet", "colored", fail)
    /\ pc' = "display_gray16"
    /\ UNCHANGED <<file, img, therm, t_matrix, pt_t_max, pt_t_min, drawn,
                   raised, written, probe>>

\* display(therm, title="gray16")
DisplayGray16 ==
    /\ pc = "display_gray16"
    /\ \E fail \in DisplayFails : display("", "gray16", fail)
    /\ pc' = "clean_up"
    /\ UNCHANGED <<file, img, therm, t_matrix, pt_t_max, pt_t_min, drawn,
                   raised, written, probe>>

\* clean_up(): cv2.destroyAllWindows(), uncaught when it raises; quagsire
\* returns after it
CleanUp ==
    /\ pc = "clean_up"
    /\ \E fail \in BOOLEAN :
         IF fail
         THEN /\ raised' = [exc |-> "cv2.error", step |-> "clean_up"]
              /\ pc' = "aborted"
              /\ windows' = windows
         ELSE /\ raised' = raised
              /\ pc' = "done"
              /\ windows' = {}
    /\ UNCHANGED <<file, img, therm, t_matrix, pt_t_max, pt_t_min, drawn,
                   printed, written, probe>>

Next == ImgRead \/ ImgAnalyze \/ DisplayColored \/ DisplayGray16 \/ CleanUp

Spec == Init /\ [][Next]_vars

\* ------------------------------------------------------------- Point, called directly
\* The module imported as a library (the __main__ guard keeps quagsire from
\* running): celsius() and cwsi() of Point(0, 0, val) for val = lo, lo+1, ...
ProbeAt(lo, cLo, prevVal, cPrev, val) ==
    [lo |-> lo, val |-> val, cLo |-> cLo, prev |-> prevVal, cPrev |-> cPrev,
     cVal |-> celsius(Point(0, 0, val)), wVal |-> cwsi(Point(0, 0, val))]

InitPoint ==
    /\ pc = "imported"
    /\ file = [ok |-> FALSE, data |-> <<>>]
    /\ Loaded
    /\ \E lo \in ProbeStarts :
         probe = ProbeAt(lo, celsius(Point(0, 0, lo)), lo, celsius(Point(0, 0, lo)), lo)

\* the next raw value
ProbeNext ==
    /\ pc = "imported"
    /\ probe.val < _GRAY16_MAX
    /\ probe' = ProbeAt(probe.lo, probe.cLo, probe.val, probe.cVal, probe.val + 1)
    /\ UNCHANGED <<pc, file, img, therm, t_matrix, pt_t_max, pt_t_min, drawn,
                   windows, printed, raised, written>>

NextPoint == ProbeNext

SpecPoint == InitPoint /\ [][NextPoint]_vars

\* ============================================================= properties
\* img_to_tmtx has returned: t_matrix, pt_t_max and pt_t_min are set
Scanned ==
    /\ pc \in {"display_colored", "display_gray16", "clean_up", "done", "aborted"}
    /\ raised.step # "img_to_tmtx"

Rows(a) == Len(a)
Cols(a) == Len(a[1])
AllCells(a) == {ij \in (1..Rows(a)) \X (1..Cols(a)) : TRUE}
\* row-major order of cells (1-based row, column)
Before(d, c) == d[1] < c[1] \/ (d[1] = c[1] /\ d[2] < c[2])

\* pt is the cell of a holding v that comes first in row-major order
IsFirstWith(a, pt, v) ==
    LET c == <<pt.x + 1, pt.y + 1>>
    IN  /\ c \in AllCells(a)
        /\ pt.val = v
        /\ a[c[1]][c[2]] = v
        /\ \A d \in AllCells(a) : Before(d, c) => a[d[1]][d[2]] # v

\* C1: the maximum point returned by img_to_tmtx is the first cell in
\* row-major order holding the largest raw value of the frame, the minimum
\* point the first cell holding the smallest; a later tie never replaces it.
C1_FirstExtremum ==
    Scanned =>
        /\ IsFirstWith(therm.a, pt_t_max, SetMax(Cells(therm.a)))
        /\ IsFirstWith(therm.a, pt_t_min, SetMin(Cells(therm.a)))

\* a scanned frame that is not constant and whose largest and smallest values
\* both occur again after their first occurrence
C1_Witness ==
    /\ Scanned
    /\ pt_t_max.val # pt_t_min.val
    /\ \E d \in AllCells(therm.a) :
         /\ Before(<<pt_t_max.x + 1, pt_t_max.y + 1>>, d)
         /\ therm.a[d[1]][d[2]] = pt_t_max.val
    /\ \E d \in AllCells(therm.a) :
         /\ Before(<<pt_t_min.x + 1, pt_t_min.y + 1>>, d)
         /\ therm.a[d[1]][d[2]] = pt_t_min.val

\* C2: the point returned as the maximum (pt_t_max) has a celsius() no lower
\* than that of any sample, the point returned as the minimum (pt_t_min) a
\* celsius() no higher than that of any sample.
C2_HottestIsWarmest ==
    Scanned =>
        \A k \in 1..Len(t_matrix) :
            /\ FxLe(celsius(t_matrix[k]), celsius(pt_t_max))
            /\ FxLe(celsius(pt_t_min), celsius(t_matrix[k]))

\* C4: a run that has run to completion has produced the report at the
\* configured output path.
C4_ReportProduced ==
    pc = "done" => args.output \in written

\* C5: no run is ended by a failure of the rendering collaborator: such a
\* failure is caught and the run goes on through clean_up.
C5_RenderFailureNeverAborts ==
    pc = "aborted" => raised.exc # "cv2.error"

\* a is an all-zero grid of the fixed dimensions
IsZeroFrame(a) ==
    /\ Len(a) = ZeroRows
    /\ \A i \in 1..ZeroRows :
         /\ Len(a[i]) = ZeroCols
         /\ \A j \in 1..ZeroCols : a[i][j] = 0

\* a is a non-empty rectangular grid of 16-bit values
WellFormed(a) ==
    /\ Len(a) >= 1
    /\ \A i \in 1..Len(a) :
         /\ Len(a[i]) = Len(a[1])
         /\ Len(a[i]) >= 1
         /\ \A j \in 1..Len(a[i]) : a[i][j] \in 0.._GRAY16_MAX

\* C6: when the input cannot be decoded, img_read returns an all-zero 8-bit
\* frame and an all-zero 16-bit frame of the fixed dimensions and raises
\* nothing; whatever the input, the analysis receives a well-formed grid.
C6_DecodeFailureGivesZeros ==
    pc # "img_read" /\ pc # "imported" =>
        /\ ~therm.isNone /\ ~img.isNone
        /\ WellFormed(therm.a)
        /\ raised.exc # "TypeError"
        /\ ~file.ok => IsZeroFrame(img.a) /\ IsZeroFrame(therm.a)

\* the undecodable input has been read and the analysis is about to start
C6_Witness ==
    /\ pc = "img_analyze"
    /\ ~file.ok
    /\ printed = <<"TypeError">>
    /\ Len(therm.a) = ZeroRows

\* C7: celsius is strictly decreasing in the raw value over 0..65535, is
\* 38.0 at raw value 0 and 21.111111 at raw value 65535.
C7_CelsiusDecreasing ==
    pc = "imported" =>
        /\ probe.lo < probe.val =>
              /\ FxLt(probe.cVal, probe.cLo)
              /\ FxLt(probe.cVal, probe.cPrev)
        /\ probe.val = 0 => probe.cVal = FxInt(_TEMP_MAX)
        /\ probe.val = _GRAY16_MAX => probe.cVal = FxInt(_TEMP_AIR)

\* the walk from raw value 0 has reached 65535
C7_Witness ==
    /\ pc = "imported"
    /\ probe.lo = 0
    /\ probe.prev = _GRAY16_MAX - 1
    /\ probe.val = _GRAY16_MAX

\* the four-term formula of the stress index for a temperature t, as a
\* fraction: wet and dry are the baselines TEMP_WET and TEMP_DRY
FourTermNum(t, wet) == [w |-> (t.w - _TEMP_AIR) - (wet - _TEMP_AIR), r |-> t.r]
FourTermDen(wet, dry) == (dry - _TEMP_AIR) - (wet - _TEMP_AIR)

\* C8: with the default constants cwsi() is 1.0 at raw value 0, 0.0 at raw
\* value 65535, and for every raw value the four-term formula applied to
\* celsius(), unclamped.
C8_CwsiFourTerm ==
    pc = "imported" =>
        /\ probe.wVal.num = FourTermNum(probe.cVal, _TEMP_AIR)
        /\ probe.wVal.den = FourTermDen(_TEMP_AIR, _TEMP_MAX)
        /\ probe.val = 0 => probe.wVal.num = FxInt(probe.wVal.den)
        /\ probe.val = _GRAY16_MAX => probe.wVal.num = FxInt(0)

\* cwsi() has been evaluated at raw value 65535 under the default constants
C8_Witness ==
    /\ pc = "imported"
    /\ probe.val = _GRAY16_MAX
    /\ probe.wVal.num = FxInt(0)

\* C9: the sample sequence has one element per cell, in row-major order:
\* element k (0-based) carries row index k div C, column index k mod C and
\* the raw value of that cell; the scan leaves the 16-bit frame as img_read
\* returned it.
C9_RowMajorSamples ==
    Scanned =>
        /\ Len(t_matrix) = Rows(therm.a) * Cols(therm.a)
        /\ \A k \in 0..(Len(t_matrix) - 1) :
             LET i == k \div Cols(therm.a)
                 j == k % Cols(therm.a)
             IN  t_matrix[k + 1] = Point(i, j, therm.a[i + 1][j + 1])
        /\ therm = img_read(file).gray16

\* a frame of at least two rows and two columns has been scanned
C9_Witness ==
    /\ Scanned
    /\ file.ok
    /\ Rows(therm.a) >= 2
    /\ Cols(therm.a) >= 2
    /\ Len(t_matrix) >= 4

\* the cell a drawing call designates: OpenCV positions are (column, row)
MarkedCell(call) == [row |-> call.at[2], col |-> call.at[1]]
\* the cell the scan read a point's value from: x is the row index, y the
\* column index
ScannedCell(pt) == [row |-> pt.x, col |-> pt.y]

\* C10: the circle add_label draws for an extremum is centred on the cell the
\* extremum's raw value was read from (the first drawing call is the circle
\* of the maximum, the fourth the circle of the minimum).
C10_MarkerOnScannedCell ==
    Scanned =>
        /\ Len(drawn) >= 1 => MarkedCell(drawn[1]) = ScannedCell(pt_t_max)
        /\ Len(drawn) >= 4 => MarkedCell(drawn[4]) = ScannedCell(pt_t_min)

====
